---- MODULE Spec2Model ----
(***************************************************************************)
(* Model of tensorforce.core.policies.ActionValue                          *)
(* (src/tensorforce/core/policies/action_value.py).                        *)
(*                                                                         *)
(* An ActionValue instance holds the specs and the distributions mapping   *)
(* it inherits from Policy.  Its operations are the two signature queries  *)
(* and the five value operations.  Every operation is modelled as a whole  *)
(* call: the call record keeps the operation, its inputs, what the         *)
(* primitive returned, the steps that ran and the outcome.                 *)
(*                                                                         *)
(* A tensor is a record [shape, data] with data in row-major order.  A     *)
(* mapping (TensorDict, SignatureDict, the specs) is a sequence of         *)
(* [name, value] records: an ordered dict.                                 *)
(***************************************************************************)
EXTENDS Integers, Sequences, FiniteSets, TLC

\* ---------------------------------------------------------------- bounds
\* Largest batch size of a call.
MaxBatch == 3
\* Values of a value table are 0..MaxValue.
MaxValue == 3
\* Seeds of the progressions the value tables are drawn from are 0..MaxSeed.
MaxSeed == 2
\* Strides of the progressions the value tables are drawn from are 0..MaxStride.
MaxStride == 2
\* Calls made on one instance before the model stops counting.
MaxCalls == 2

\* Length of the horizons vector, TensorSpec(type='int', shape=(2,)).
HorizonsLen == 2

VARIABLES
    actions_spec,        \* self.actions_spec: ordered name -> [shape, num_values]
    states_spec,         \* self.states_spec
    internals_spec,      \* self.internals_spec
    auxiliaries_spec,    \* self.auxiliaries_spec
    distributions,       \* self.distributions: ordered name -> distribution
    impl,                \* the class of the instance: base or a concrete subclass
    call,                \* the call that has returned or raised, or NoCall
    ncalls               \* calls made on the instance so far

vars == <<actions_spec, states_spec, internals_spec, auxiliaries_spec,
          distributions, impl, call, ncalls>>

\* The value of call while no call is recorded: none was made, or the caller
\* has taken the outcome of the last one.
NoCall == [op |-> "none"]

\* ------------------------------------------------------- sequence helpers
RECURSIVE Prod(_)
Prod(s) == IF s = <<>> THEN 1 ELSE Head(s) * Prod(Tail(s))

RECURSIVE SumSeq(_)
SumSeq(s) == IF s = <<>> THEN 0 ELSE Head(s) + SumSeq(Tail(s))

RECURSIVE Flatten(_)
Flatten(ss) == IF ss = <<>> THEN <<>> ELSE Head(ss) \o Flatten(Tail(ss))

Front(s) == SubSeq(s, 1, Len(s) - 1)

Keys(m) == [i \in 1..Len(m) |-> m[i].name]

Values(m) == [i \in 1..Len(m) |-> m[i].value]

\* m[name] of an ordered mapping; the name is present.
Lookup(m, name) == m[CHOOSE i \in 1..Len(m) : m[i].name = name].value

HasKey(m, name) == \E i \in 1..Len(m) : m[i].name = name

\* ---------------------------------------------------------------- outcomes
NoError == "none"
NotImplementedError == "NotImplementedError"
InvalidArgumentError == "InvalidArgumentError"
LookupFailure == "LookupFailure"

NoValue == [shape |-> <<>>, data |-> <<>>]

Ok(v) == [err |-> NoError, value |-> v]

Raise(e) == [err |-> e, value |-> NoValue]

\* ------------------------------------------------------------- TensorSpec
\* spec.size: the product of the dims of spec.shape.
Size(spec) == Prod(spec.shape)

\* sum(spec.size for spec in self.actions_spec.values())
SumSizes_skip_first(aspec) ==
    SumSeq([i \in 1..(Len(aspec) - 1) |-> Size(aspec[i + 1].value)])

SumSizes(aspec) == SumSeq([i \in 1..Len(aspec) |-> Size(aspec[i].value)])

\* --------------------------------------------------------- tensor operations
\* tf.reshape(tensor=value, shape=(-1, size)): the -1 dim is inferred, and the
\* call fails when the element count is no multiple of size.
Reshape_unit_width(t, size) ==
    Ok([shape |-> <<Len(t.data), 1>>, data |-> t.data])

Reshape(t, size) ==
    IF size = 0 \/ Len(t.data) % size # 0
        THEN Raise(InvalidArgumentError)
        ELSE Ok([shape |-> <<Len(t.data) \div size, size>>, data |-> t.data])

\* Row r of a rank-2 tensor.
Row(t, r) == SubSeq(t.data, (r - 1) * t.shape[2] + 1, r * t.shape[2])

\* tf.concat(values=ts, axis=1) of rank-2 tensors: every dim but dim 1 must
\* agree; row r of the result is row r of each tensor in turn.
Concat(ts) ==
    IF \E i \in 1..Len(ts) : ts[i].shape[1] # ts[1].shape[1]
        THEN Raise(InvalidArgumentError)
        ELSE Ok([shape |-> <<ts[1].shape[1],
                             SumSeq([i \in 1..Len(ts) |-> ts[i].shape[2]])>>,
                 data |-> Flatten([r \in 1..ts[1].shape[1] |->
                     Flatten([i \in 1..Len(ts) |-> Row(ts[i], r)])])])

RECURSIVE MaxOf(_)
MaxOf(s) ==
    IF Len(s) = 1 THEN Head(s)
    ELSE LET m == MaxOf(Tail(s)) IN IF Head(s) >= m THEN Head(s) ELSE m

RECURSIVE MinOf(_)
MinOf(s) ==
    IF Len(s) = 1 THEN Head(s)
    ELSE LET m == MinOf(Tail(s)) IN IF Head(s) <= m THEN Head(s) ELSE m

\* tf.math.reduce_max(input_tensor=t, axis=-1): the last axis is reduced away.
ReduceMax_min(t) ==
    LET k == t.shape[Len(t.shape)]
    IN  [shape |-> Front(t.shape),
         data |-> [i \in 1..(Len(t.data) \div k) |->
                      MinOf(SubSeq(t.data, (i - 1) * k + 1, i * k))]]

ReduceMax(t) ==
    LET k == t.shape[Len(t.shape)]
    IN  [shape |-> Front(t.shape),
         data |-> [i \in 1..(Len(t.data) \div k) |->
                      MaxOf(SubSeq(t.data, (i - 1) * k + 1, i * k))]]

\* ------------------------------------------------- the instance's class
\* Index of a component in the actions specification.
SpecIndex(name) == CHOOSE i \in 1..Len(actions_spec) : actions_spec[i].name = name

Reverse(s) == [i \in 1..Len(s) |-> s[Len(s) + 1 - i]]

\* The components in the order in which the subclass fills the mapping it
\* returns.
ReturnOrder == IF impl.order = "reversed" THEN Reverse(actions_spec) ELSE actions_spec

\* The value table a concrete estimator computes for one component: one value
\* per discrete choice on the last axis.  Layout "full" is
\* (batch, *spec.shape, num_values); layout "flat" is (batch, num_values).
\* The values are drawn from a family of progressions, entry k being
\* (seed + index of the component + k * stride) mod (MaxValue + 2), capped at
\* MaxValue: rows with one maximum, rows with ties and constant rows all occur.
ValueTable(name, spec, input) ==
    LET shape == IF impl.layout = "full"
                    THEN <<input.batch>> \o spec.shape \o <<spec.num_values>>
                    ELSE <<input.batch, spec.num_values>>
        raw(k) == (input.seed + SpecIndex(name) + (k - 1) * input.stride) % (MaxValue + 2)
    IN  [shape |-> shape,
         data |-> [k \in 1..Prod(shape) |->
                      IF raw(k) > MaxValue THEN MaxValue ELSE raw(k)]]

\* Index (from 0) of the first maximal entry of a sequence: tf.argmax.
ArgMax(s) == (CHOOSE i \in 1..Len(s) :
                 /\ \A j \in 1..Len(s) : s[j] <= s[i]
                 /\ \A j \in 1..(i - 1) : s[j] < s[i]) - 1

\* The action tensor a rule stands for, given the component's value table:
\* the greedy action, or the last choice everywhere.
ActionTensor(rule, table) ==
    LET k == table.shape[Len(table.shape)]
    IN  [shape |-> Front(table.shape),
         data |-> [i \in 1..(Len(table.data) \div k) |->
             IF rule = "greedy"
                THEN ArgMax(SubSeq(table.data, (i - 1) * k + 1, i * k))
                ELSE k - 1]]

\* The entries of a value table selected by an action tensor.
SelectByAction(table, action) ==
    LET k == table.shape[Len(table.shape)]
    IN  [shape |-> action.shape,
         data |-> [i \in 1..Len(action.data) |->
                      table.data[(i - 1) * k + action.data[i] + 1]]]

\* all_actions_values of a concrete estimator.
SubclassAllActionsValues(input) ==
    [i \in 1..Len(ReturnOrder) |->
        [name |-> ReturnOrder[i].name,
         value |-> ValueTable(ReturnOrder[i].name, ReturnOrder[i].value, input)]]

\* actions_values of a concrete estimator: per component, the entry of
\* all_actions_values that the given action selects.
SubclassActionsValues(input) ==
    LET tables == SubclassAllActionsValues(input)
    IN  [i \in 1..Len(tables) |->
            [name |-> tables[i].name,
             value |-> SelectByAction(tables[i].value,
                                      ActionTensor(input.rule, tables[i].value))]]

\* ------------------------------------------------------------------ fmap
\* NestedDict.fmap(function=reshape, zip_values=specs): the items of the
\* receiver in the receiver's own order, each mapped with the spec of the
\* same name; an exception of the function ends the loop.
RECURSIVE FmapReshapeFrom(_, _, _)
FmapReshapeFrom(m, specs, i) ==
    IF i > Len(m) THEN [err |-> NoError, value |-> <<>>, steps |-> <<>>]
    ELSE LET r == Reshape(m[i].value, Size(Lookup(specs, m[i].name)))
         IN  IF r.err # NoError
                THEN [err |-> r.err, value |-> <<>>, steps |-> <<"reshape">>]
                ELSE LET rest == FmapReshapeFrom(m, specs, i + 1)
                     IN  [err |-> rest.err,
                          value |-> IF rest.err = NoError
                                       THEN <<[name |-> m[i].name, value |-> r.value]>>
                                            \o rest.value
                                       ELSE <<>>,
                          steps |-> <<"reshape">> \o rest.steps]

FmapReshape(m, specs) == FmapReshapeFrom(m, specs, 1)

\* NestedDict.fmap(function=reduce_max): same keys, same order.
FmapReduceMax_last_choice(m) ==
    [i \in 1..Len(m) |->
        LET t == m[i].value
            k == t.shape[Len(t.shape)]
        IN  [name |-> m[i].name,
             value |-> [shape |-> Front(t.shape),
                        data |-> [j \in 1..(Len(t.data) \div k) |-> t.data[j * k]]]]]

FmapReduceMax(m) ==
    [i \in 1..Len(m) |-> [name |-> m[i].name, value |-> ReduceMax(m[i].value)]]

\* ------------------------------------------------------ value operations
\* What an operation hands back: the outcome, what its primitive did, how
\* often the primitive was called and the steps that ran after it.
Result(err, value, prim, primCalls, steps) ==
    [err |-> err, value |-> value, prim |-> prim, primCalls |-> primCalls,
     steps |-> steps, parentCalls |-> 0]

NoPrim == [err |-> NoError, value |-> NoValue]

\* ActionValue.actions_values: raise NotImplementedError, unless overridden.
ActionsValues_default(input) ==
    IF impl.kind = "base"
        THEN Ok([i \in 1..Len(actions_spec) |->
                    [name |-> actions_spec[i].name,
                     value |-> [shape |-> <<input.batch>> \o actions_spec[i].value.shape,
                                data |-> [k \in 1..(input.batch * Size(actions_spec[i].value))
                                             |-> 0]]]])
        ELSE Ok(SubclassActionsValues(input))

ActionsValues(input) ==
    IF impl.kind = "base"
        THEN Raise(NotImplementedError)
        ELSE Ok(SubclassActionsValues(input))

\* ActionValue.all_actions_values: raise NotImplementedError, unless overridden.
AllActionsValues(input) ==
    IF impl.kind = "base"
        THEN Raise(NotImplementedError)
        ELSE Ok(SubclassAllActionsValues(input))

\* ActionValue.actions_value
ActionsValueOp_retry(input) ==
    LET p == ActionsValues(input)
    IN  IF p.err # NoError
           THEN LET q == ActionsValues(input)
                IN  Result(q.err, NoValue, q, 2, <<>>)
           ELSE LET f == FmapReshape(p.value, actions_spec)
                IN  IF f.err # NoError
                       THEN Result(f.err, NoValue, p, 1, f.steps)
                       ELSE LET c == Concat(Values(f.value))
                            IN  Result(c.err, c.value, p, 1, f.steps \o <<"concat">>)

ActionsValueOp(input) ==
    LET p == ActionsValues(input)
    IN  IF p.err # NoError
           THEN Result(p.err, NoValue, p, 1, <<>>)
           ELSE LET f == FmapReshape(p.value, actions_spec)
                IN  IF f.err # NoError
                       THEN Result(f.err, NoValue, p, 1, f.steps)
                       ELSE LET c == Concat(Values(f.value))
                            IN  Result(c.err, c.value, p, 1, f.steps \o <<"concat">>)

\* ActionValue.states_values
StatesValuesOp(input) ==
    LET p == AllActionsValues(input)
    IN  IF p.err # NoError
           THEN Result(p.err, NoValue, p, 1, <<>>)
           ELSE Result(NoError, FmapReduceMax(p.value), p, 1,
                       [i \in 1..Len(p.value) |-> "reduce_max"])

\* ActionValue.states_value
StatesValueOp_counting(input) ==
    LET s == StatesValuesOp(input)
    IN  IF s.err # NoError \/ ncalls > 0
           THEN Result(IF s.err # NoError THEN s.err ELSE InvalidArgumentError,
                       NoValue, s.prim, s.primCalls, s.steps)
           ELSE LET f == FmapReshape(s.value, actions_spec)
                IN  IF f.err # NoError
                       THEN Result(f.err, NoValue, s.prim, s.primCalls, s.steps \o f.steps)
                       ELSE LET c == Concat(Values(f.value))
                            IN  Result(c.err, c.value, s.prim, s.primCalls,
                                       s.steps \o f.steps \o <<"concat">>)

StatesValueOp(input) ==
    LET s == StatesValuesOp(input)
    IN  IF s.err # NoError
           THEN Result(s.err, NoValue, s.prim, s.primCalls, s.steps)
           ELSE LET f == FmapReshape(s.value, actions_spec)
                IN  IF f.err # NoError
                       THEN Result(f.err, NoValue, s.prim, s.primCalls, s.steps \o f.steps)
                       ELSE LET c == Concat(Values(f.value))
                            IN  Result(c.err, c.value, s.prim, s.primCalls,
                                       s.steps \o f.steps \o <<"concat">>)

\* A direct call of one of the two primitives.
ActionsValuesOp(input) ==
    LET p == ActionsValues(input) IN Result(p.err, p.value, p, 1, <<>>)

AllActionsValuesOp(input) ==
    LET p == AllActionsValues(input) IN Result(p.err, p.value, p, 1, <<>>)

\* ------------------------------------------------------------ signatures
\* TensorSpec(type=..., shape=...).signature(batched=True)
TensorSignature(type, shape) == [type |-> type, shape |-> shape, batched |-> TRUE]

\* spec.signature(batched=True) of a mapping of TensorSpecs.
SpecSignature(spec) ==
    [i \in 1..Len(spec) |->
        [name |-> spec[i].name,
         value |-> TensorSignature(spec[i].value.type, spec[i].value.shape)]]

\* The operations ActionValue declares itself.
LocalFunctions ==
    {"actions_value", "actions_values", "all_actions_values", "states_value",
     "states_values"}

\* The operations the parent Policy declares.
ParentFunctions == {"act", "past_horizon"}

\* Policy.input_signature / Policy.output_signature: the parent's own table,
\* and a lookup failure for a name it does not know.
ParentSignature(which, function) ==
    IF function \in ParentFunctions
        THEN [err |-> NoError,
              value |-> <<[name |-> "parent", value |-> <<which, function>>]>>,
              parentCalls |-> 1]
        ELSE [err |-> LookupFailure, value |-> <<>>, parentCalls |-> 1]

Local(groups) == [err |-> NoError, value |-> groups, parentCalls |-> 0]

\* The four argument groups every value operation takes.
StateGroups ==
    <<[name |-> "states", value |-> SpecSignature(states_spec)],
      [name |-> "horizons", value |-> TensorSignature("int", <<HorizonsLen>>)],
      [name |-> "internals", value |-> SpecSignature(internals_spec)],
      [name |-> "auxiliaries", value |-> SpecSignature(auxiliaries_spec)]>>

ActionsGroup == <<[name |-> "actions", value |-> SpecSignature(actions_spec)]>>

\* ActionValue.input_signature
InputSignature_no_actions(function) ==
    IF function \in LocalFunctions THEN Local(StateGroups)
    ELSE ParentSignature("input", function)

InputSignature(function) ==
    CASE function = "actions_value" -> Local(StateGroups \o ActionsGroup)
      [] function = "actions_values" -> Local(StateGroups \o ActionsGroup)
      [] function = "all_actions_values" -> Local(StateGroups)
      [] function = "states_value" -> Local(StateGroups)
      [] function = "states_values" -> Local(StateGroups)
      [] OTHER -> ParentSignature("input", function)

\* Distribution.output_signature(function='all_action_values').singleton():
\* one value per discrete choice of the component.
DistributionSignature(d) == TensorSignature("float", d.shape \o <<d.num_values>>)

Singleton(v) == <<[name |-> "singleton", value |-> v]>>

\* ActionValue.output_signature
OutputSignature_to_parent(function) ==
    CASE function = "actions_value" ->
            Local(Singleton(TensorSignature("float", <<SumSizes(actions_spec)>>)))
      [] function = "states_value" ->
            Local(Singleton(TensorSignature("float", <<SumSizes(actions_spec)>>)))
      [] OTHER -> ParentSignature("output", function)

OutputSignature(function) ==
    CASE function = "actions_value" ->
            Local(Singleton(TensorSignature("float", <<SumSizes(actions_spec)>>)))
      [] function = "actions_values" ->
            Local(Singleton([i \in 1..Len(actions_spec) |->
                [name |-> actions_spec[i].name,
                 value |-> TensorSignature("float", actions_spec[i].value.shape)]]))
      [] function = "all_actions_values" ->
            Local(Singleton([i \in 1..Len(distributions) |->
                [name |-> distributions[i].name,
                 value |-> DistributionSignature(distributions[i].value)]]))
      [] function = "states_value" ->
            Local(Singleton(TensorSignature("float", <<SumSizes(actions_spec)>>)))
      [] function = "states_values" ->
            Local(Singleton([i \in 1..Len(actions_spec) |->
                [name |-> actions_spec[i].name,
                 value |-> TensorSignature("float", actions_spec[i].value.shape)]]))
      [] OTHER -> ParentSignature("output", function)

\* @tf_function(num_args=...): the positional argument count of an operation.
NumArgs(function) ==
    CASE function = "actions_value" -> 5
      [] function = "actions_values" -> 5
      [] function = "all_actions_values" -> 4
      [] function = "states_value" -> 4
      [] function = "states_values" -> 4

\* ------------------------------------------------------------ the machine
\* The action components an instance may be built with.
ComponentSpecs ==
    {[type |-> "int", shape |-> <<>>, num_values |-> 2],
     [type |-> "int", shape |-> <<1>>, num_values |-> 2],
     [type |-> "int", shape |-> <<4>>, num_values |-> 4],
     [type |-> "int", shape |-> <<1, 2>>, num_values |-> 3]}

ComponentNames == {"move", "jump"}

ActionsSpecs ==
    {<<[name |-> n, value |-> c]>> : n \in ComponentNames, c \in ComponentSpecs}
    \cup {<<[name |-> n1, value |-> c1], [name |-> n2, value |-> c2]>> :
             n1 \in ComponentNames, n2 \in ComponentNames,
             c1 \in ComponentSpecs, c2 \in ComponentSpecs}

Impls ==
    {[kind |-> "base", layout |-> "full", order |-> "spec"]}
    \cup [kind : {"subclass"}, layout : {"full", "flat"}, order : {"spec", "reversed"}]

\* What the caller names in a signature query.
FunctionNames == LocalFunctions \cup ParentFunctions \cup {"unknown_op"}

StateInputs ==
    [batch : 1..MaxBatch, seed : 0..MaxSeed, stride : 0..MaxStride, rule : {"none"}]

ActionInputs ==
    [batch : 1..MaxBatch, seed : 0..MaxSeed, stride : 0..MaxStride,
     rule : {"greedy", "last"}]

\* Policy.__init__: the specs and one distribution per action component.
Init ==
    /\ actions_spec \in ActionsSpecs
    /\ Len(actions_spec) = 2 => actions_spec[1].name # actions_spec[2].name
    /\ states_spec = <<[name |-> "state",
                        value |-> [type |-> "float", shape |-> <<2>>, num_values |-> 0]]>>
    /\ internals_spec = <<>>
    /\ auxiliaries_spec = <<>>
    /\ distributions = [i \in 1..Len(actions_spec) |->
           [name |-> actions_spec[i].name,
            value |-> [shape |-> actions_spec[i].value.shape,
                       num_values |-> actions_spec[i].value.num_values]]]
    /\ impl \in Impls
    /\ impl.order = "reversed" => Len(actions_spec) = 2
    /\ call = NoCall
    /\ ncalls = 0

\* The record of a finished call.
Record(op, input, r) ==
    [op |-> op, input |-> input, err |-> r.err, value |-> r.value, prim |-> r.prim,
     primCalls |-> r.primCalls, steps |-> r.steps, parentCalls |-> r.parentCalls]

SignatureRecord(op, function, r) ==
    [op |-> op, input |-> [function |-> function], err |-> r.err, value |-> r.value,
     prim |-> NoPrim, primCalls |-> 0, steps |-> <<>>, parentCalls |-> r.parentCalls]

\* The outcome of operation op on input.
Invoke(op, input) ==
    CASE op = "actions_value" -> Record(op, input, ActionsValueOp(input))
      [] op = "actions_values" -> Record(op, input, ActionsValuesOp(input))
      [] op = "all_actions_values" -> Record(op, input, AllActionsValuesOp(input))
      [] op = "states_value" -> Record(op, input, StatesValueOp(input))
      [] op = "states_values" -> Record(op, input, StatesValuesOp(input))
      [] op = "input_signature" ->
            SignatureRecord(op, input.function, InputSignature(input.function))
      [] op = "output_signature" ->
            SignatureRecord(op, input.function, OutputSignature(input.function))

Frame ==
    UNCHANGED <<actions_spec, states_spec, internals_spec, auxiliaries_spec,
                distributions, impl>>

Idle == call = NoCall /\ ncalls < MaxCalls

CallInputSignature ==
    /\ Idle
    /\ \E f \in FunctionNames : call' = Invoke("input_signature", [function |-> f])
    /\ ncalls' = ncalls + 1
    /\ Frame

CallOutputSignature ==
    /\ Idle
    /\ \E f \in FunctionNames : call' = Invoke("output_signature", [function |-> f])
    /\ ncalls' = ncalls + 1
    /\ Frame

CallActionsValue ==
    /\ Idle
    /\ \E input \in ActionInputs : call' = Invoke("actions_value", input)
    /\ ncalls' = ncalls + 1
    /\ Frame

CallActionsValues ==
    /\ Idle
    /\ \E input \in ActionInputs : call' = Invoke("actions_values", input)
    /\ ncalls' = ncalls + 1
    /\ Frame

CallAllActionsValues ==
    /\ Idle
    /\ \E input \in StateInputs : call' = Invoke("all_actions_values", input)
    /\ ncalls' = ncalls + 1
    /\ Frame

CallStatesValue ==
    /\ Idle
    /\ \E input \in StateInputs : call' = Invoke("states_value", input)
    /\ ncalls' = ncalls + 1
    /\ Frame

CallStatesValues ==
    /\ Idle
    /\ \E input \in StateInputs : call' = Invoke("states_values", input)
    /\ ncalls' = ncalls + 1
    /\ Frame

\* The caller makes the call it has just made once more, with the same inputs.
Repeat ==
    /\ call # NoCall
    /\ ncalls < MaxCalls
    /\ call' = Invoke(call.op, call.input)
    /\ ncalls' = ncalls + 1
    /\ Frame

\* The caller takes the outcome and the instance is idle again.
Return ==
    /\ call # NoCall
    /\ call' = NoCall
    /\ UNCHANGED ncalls
    /\ Frame

Next ==
    \/ CallInputSignature
    \/ CallOutputSignature
    \/ CallActionsValue
    \/ CallActionsValues
    \/ CallAllActionsValues
    \/ CallStatesValue
    \/ CallStatesValues
    \/ Repeat
    \/ Return

Spec == Init /\ [][Next]_vars

\* ================================================================ claims
\* Helpers of the claims' statements, written without the model's operators
\* where the statement has to be independent of them.

\* The largest member of a non-empty set of integers.
SetMax(S) == CHOOSE m \in S : \A x \in S : x <= m

\* The flattened size of every component, summed by counting the elements.
TotalElements ==
    Cardinality({<<i, e>> \in (1..Len(actions_spec)) \X (1..8) :
                    e <= Prod(actions_spec[i].value.shape)})

\* Every component of mapping m is present and shaped (batch, *component shape).
ConformsToSpec(m, batch) ==
    /\ {m[i].name : i \in 1..Len(m)} = {actions_spec[i].name : i \in 1..Len(actions_spec)}
    /\ Len(m) = Len(actions_spec)
    /\ \A i \in 1..Len(m) :
          m[i].value.shape = <<batch>> \o Lookup(actions_spec, m[i].name).shape

\* Every table of mapping m is shaped (batch, *component shape, choices).
TablesConformToSpec(m, batch) ==
    /\ Len(m) = Len(actions_spec)
    /\ \A i \in 1..Len(m) :
          /\ HasKey(actions_spec, m[i].name)
          /\ Front(m[i].value.shape) = <<batch>> \o Lookup(actions_spec, m[i].name).shape

\* C1: when actions_values returns for every component a tensor of shape
\* (batch, *component shape), actions_value returns a tensor with batch rows
\* whose width is the sum of the components' flattened sizes, which is the
\* width output_signature(function='actions_value') declares.
C1_ActionsValueWidth ==
    (/\ call.op = "actions_value"
     /\ call.prim.err = NoError
     /\ ConformsToSpec(call.prim.value, call.input.batch))
    => /\ call.err = NoError
       /\ call.value.shape = <<call.input.batch, TotalElements>>
       /\ Len(call.value.data) = call.input.batch * TotalElements
       /\ OutputSignature("actions_value").value[1].value.shape = <<call.value.shape[2]>>

C1_Witness ==
    /\ call.op = "actions_value"
    /\ call.err = NoError
    /\ Len(actions_spec) = 2
    /\ call.input.batch >= 2
    /\ ConformsToSpec(call.prim.value, call.input.batch)
    /\ call.value.shape[2] = 5

\* C2: states_values has the keys of all_actions_values, and each component
\* is the all_actions_values table with its last axis reduced to its maximum,
\* entry by entry: the last axis is gone and the batch axis is kept.
C2_StatesValuesIsMax ==
    (call.op = "states_values" /\ call.err = NoError)
    => /\ Keys(call.value) = Keys(call.prim.value)
       /\ \A i \in 1..Len(call.value) :
            LET t == call.prim.value[i].value
                v == call.value[i].value
                k == t.shape[Len(t.shape)]
            IN  /\ v.shape = SubSeq(t.shape, 1, Len(t.shape) - 1)
                /\ v.shape[1] = call.input.batch
                /\ Len(v.data) * k = Len(t.data)
                /\ \A j \in 1..Len(v.data) :
                      v.data[j] = SetMax({t.data[(j - 1) * k + c] : c \in 1..k})

C2_Witness ==
    /\ call.op = "states_values"
    /\ call.err = NoError
    /\ call.input.batch >= 2
    /\ \E i \in 1..Len(call.value) :
          /\ Len(call.prim.value[i].value.shape) = 4
          /\ \E j, l \in 1..Len(call.value[i].value.data) :
                call.value[i].value.data[j] # call.value[i].value.data[l]
          /\ \E j \in 1..Len(call.prim.value[i].value.data) :
                call.prim.value[i].value.data[j] < call.value[i].value.data[1]

\* C3: for an estimator whose actions_values selects the entries of
\* all_actions_values, states_value ends as actions_value on the greedy
\* action (the first argmax of every choice axis) ends, value for value, and
\* the other way round.
C3_StatesValueIsGreedyActionsValue ==
    /\ (call.op = "states_value" /\ impl.kind = "subclass")
       => LET a == ActionsValueOp([call.input EXCEPT !.rule = "greedy"])
          IN  a.err = call.err /\ a.value = call.value
    /\ (call.op = "actions_value" /\ impl.kind = "subclass" /\ call.input.rule = "greedy")
       => LET s == StatesValueOp([call.input EXCEPT !.rule = "none"])
          IN  s.err = call.err /\ s.value = call.value

\* A states_value call that returned, over a table with a row in which two
\* choices tie for the maximum and a third is smaller.
C3_Witness ==
    /\ call.op = "states_value"
    /\ call.err = NoError
    /\ \E i \in 1..Len(call.prim.value) :
          LET t == call.prim.value[i].value
              k == t.shape[Len(t.shape)]
          IN  \E j \in 1..(Len(t.data) \div k) :
                 LET row == SubSeq(t.data, (j - 1) * k + 1, j * k)
                 IN  /\ \E a, b \in 1..k : a # b /\ row[a] = row[b]
                                           /\ \A c \in 1..k : row[c] <= row[a]
                     /\ \E c \in 1..k : row[c] < SetMax({row[x] : x \in 1..k})

\* The blocks of a returned value in the declared order of the actions
\* specification: component i's block is what the primitive returned under
\* that component's name, in rows of the component's size.
BlocksInSpecOrder ==
    [i \in 1..Len(actions_spec) |->
        LET t == Lookup(call.prim.value, actions_spec[i].name)
            v == IF call.op = "states_value" THEN ReduceMax(t) ELSE t
            size == Prod(actions_spec[i].value.shape)
        IN  [shape |-> <<Len(v.data) \div size, size>>, data |-> v.data]]

\* C4: the column blocks of actions_value and states_value are in the declared
\* order of the actions specification, whatever the key order of the mapping
\* the subclass returned.
C4_BlocksInSpecOrder ==
    (call.op \in {"actions_value", "states_value"} /\ call.err = NoError)
    => \A r \in 1..call.value.shape[1] :
          Row(call.value, r)
            = Flatten([i \in 1..Len(actions_spec) |-> Row(BlocksInSpecOrder[i], r)])

\* C5: on a base instance actions_values and all_actions_values end in
\* NotImplementedError and hand back no value.
C5_PrimitivesNotImplemented ==
    (impl.kind = "base" /\ call.op \in {"actions_values", "all_actions_values"})
    => call.err = NotImplementedError /\ call.value = NoValue

C5_Witness ==
    /\ impl.kind = "base"
    /\ call.op = "actions_values"
    /\ call.err = NotImplementedError
    /\ ncalls = 2

ComposedOperations == {"actions_value", "states_value", "states_values"}

\* A failure of the primitive comes back as it is: one call of the primitive,
\* no step after it, no value.
PrimitiveFailurePropagates ==
    call.prim.err # NoError
    => /\ call.err = call.prim.err
       /\ call.value = NoValue
       /\ call.steps = <<>>

\* C6 as stated: a composed operation fails only when its primitive fails,
\* and then with the primitive's error, after one call of the primitive and
\* with no later step and no value.
C6_FailsOnlyWithPrimitive ==
    call.op \in ComposedOperations
    => /\ call.primCalls = 1
       /\ PrimitiveFailurePropagates
       /\ call.err # NoError => call.prim.err # NoError
       /\ impl.kind = "base" => call.err = NotImplementedError

\* C6 amended: the primitive is called once and its failure comes back
\* unchanged; after a primitive that returned, states_values always returns,
\* and actions_value and states_value fail only in their own reshape or concat
\* step, and only when a returned component is not shaped to its spec.
C6_PropagatesOrShapeError ==
    call.op \in ComposedOperations
    => /\ call.primCalls = 1
       /\ PrimitiveFailurePropagates
       /\ impl.kind = "base" => call.err = NotImplementedError
       /\ (call.prim.err = NoError /\ call.err # NoError)
          => /\ call.op # "states_values"
             /\ call.err = InvalidArgumentError
             /\ call.value = NoValue
             /\ call.steps # <<>>
             /\ IF call.op = "actions_value"
                   THEN ~ConformsToSpec(call.prim.value, call.input.batch)
                   ELSE ~TablesConformToSpec(call.prim.value, call.input.batch)

C6_Witness ==
    /\ impl.kind = "base"
    /\ call.op = "states_value"
    /\ call.err = NotImplementedError
    /\ call.prim.err = NotImplementedError
    /\ call.steps = <<>>

\* The example: actions {move: shape (4,), jump: shape (1,)}, a batch of 3,
\* all_actions_values returning {move: (3, 4), jump: (3, 2)}.
ExampleScenario ==
    /\ Keys(actions_spec) = <<"move", "jump">>
    /\ actions_spec[1].value.shape = <<4>>
    /\ actions_spec[2].value.shape = <<1>>
    /\ call.op \in {"states_value", "states_values"}
    /\ call.input.batch = 3
    /\ call.prim.err = NoError
    /\ Keys(call.prim.value) = <<"move", "jump">>
    /\ call.prim.value[1].value.shape = <<3, 4>>
    /\ call.prim.value[2].value.shape = <<3, 2>>

\* states_values of the example: {move: (3,), jump: (3,)}, the row maxima.
ExampleStatesValues ==
    call.op = "states_values"
    => /\ call.err = NoError
       /\ Keys(call.value) = <<"move", "jump">>
       /\ \A i \in 1..2 :
            LET t == call.prim.value[i].value
                k == t.shape[2]
            IN  /\ call.value[i].value.shape = <<3>>
                /\ \A r \in 1..3 :
                      call.value[i].value.data[r]
                        = SetMax({t.data[(r - 1) * k + c] : c \in 1..k})

\* C7 as stated: in the example states_values returns the row maxima and
\* states_value returns a tensor of shape (3, 5).
C7_ExampleReturnsThreeByFive ==
    ExampleScenario
    => /\ ExampleStatesValues
       /\ call.op = "states_value"
          => call.err = NoError /\ call.value.shape = <<3, 5>>

\* C7 amended: in the example states_values returns the row maxima, and
\* states_value returns nothing: reshaping move's 3 maxima to rows of 4 fails.
\* states_value returns shape (3, 5), move's 4 maxima then jump's 1 in every
\* row, when the tables are shaped (3, 4, choices) and (3, 1, choices).
C7_ExampleReshapeFails ==
    /\ ExampleScenario
       => /\ ExampleStatesValues
          /\ call.op = "states_value"
             => /\ call.err = InvalidArgumentError
                /\ call.value = NoValue
                /\ call.steps = <<"reduce_max", "reduce_max", "reshape">>
    /\ (/\ Keys(actions_spec) = <<"move", "jump">>
        /\ actions_spec[1].value.shape = <<4>>
        /\ actions_spec[2].value.shape = <<1>>
        /\ call.op = "states_value"
        /\ call.input.batch = 3
        /\ call.prim.err = NoError
        /\ Keys(call.prim.value) = <<"move", "jump">>
        /\ SubSeq(call.prim.value[1].value.shape, 1, 2) = <<3, 4>>
        /\ SubSeq(call.prim.value[2].value.shape, 1, 2) = <<3, 1>>
        /\ Len(call.prim.value[1].value.shape) = 3
        /\ Len(call.prim.value[2].value.shape) = 3)
       => /\ call.err = NoError
          /\ call.value.shape = <<3, 5>>
          /\ \A r \in 1..3 :
                LET move == call.prim.value[1].value
                    jump == call.prim.value[2].value
                    km == move.shape[3]
                    kj == jump.shape[3]
                IN  /\ \A e \in 1..4 :
                          call.value.data[(r - 1) * 5 + e]
                            = SetMax({move.data[((r - 1) * 4 + e - 1) * km + c] :
                                         c \in 1..km})
                    /\ call.value.data[(r - 1) * 5 + 5]
                          = SetMax({jump.data[(r - 1) * kj + c] : c \in 1..kj})

C7_Witness ==
    /\ ExampleScenario
    /\ call.op = "states_value"
    /\ call.err = InvalidArgumentError
    /\ call.input.stride = 1

FiveOperations ==
    {"actions_value", "actions_values", "all_actions_values", "states_value",
     "states_values"}

\* C8: the two signature queries answer the five operation names themselves,
\* without asking the parent Policy, and hand every other name to the parent,
\* whose answer, a failed lookup included, is the answer of the query.
C8_LocalOrParent ==
    call.op \in {"input_signature", "output_signature"}
    => IF call.input.function \in FiveOperations
          THEN /\ call.parentCalls = 0
               /\ call.err = NoError
               /\ Keys(call.value) # <<"parent">>
          ELSE LET which == IF call.op = "input_signature" THEN "input" ELSE "output"
                   parent == ParentSignature(which, call.input.function)
               IN  /\ call.parentCalls = 1
                   /\ call.err = parent.err
                   /\ call.value = parent.value
                   /\ call.input.function \notin ParentFunctions
                      => call.err = LookupFailure

C8_Witness ==
    /\ call.op = "output_signature"
    /\ call.input.function = "unknown_op"
    /\ call.err = LookupFailure
    /\ call.parentCalls = 1

\* C9: input_signature lists states, horizons (int, shape [2]), internals,
\* auxiliaries, and then actions for actions_value and actions_values only;
\* the number of groups is the operation's num_args: 5 with actions, 4 without.
C9_GroupsMatchNumArgs ==
    (call.op = "input_signature" /\ call.input.function \in FiveOperations)
    => LET withActions == call.input.function \in {"actions_value", "actions_values"}
       IN  /\ call.err = NoError
           /\ Keys(call.value)
                = <<"states", "horizons", "internals", "auxiliaries">>
                  \o (IF withActions THEN <<"actions">> ELSE <<>>)
           /\ call.value[2].value = [type |-> "int", shape |-> <<2>>, batched |-> TRUE]
           /\ Len(call.value) = NumArgs(call.input.function)
           /\ NumArgs(call.input.function) = IF withActions THEN 5 ELSE 4

C9_Witness ==
    /\ call.op = "input_signature"
    /\ call.input.function = "actions_values"
    /\ Len(call.value) = 5
    /\ call.value[5].name = "actions"

====
